---- MODULE Spec2Model ----
(***************************************************************************)
(* os_cloud_node: the lidar and IMU packet callbacks of the point-cloud    *)
(* node (ouster_ros/src/os_cloud_node.cpp).                                *)
(*                                                                         *)
(* The node owns one LidarScan `ls` and one ScanBatcher `batch`.  Every    *)
(* lidar packet is handed to batch; when batch returns true the handler    *)
(* looks for the first column header with a nonzero timestamp, converts    *)
(* the scan and publishes one cloud.  Every IMU packet is decoded and      *)
(* published.  ScanBatcher and packet_to_imu_msg are not part of           *)
(* os_cloud_node.cpp; they are modelled from the design text (sections     *)
(* 4.2, 4.4).  scan_to_cloud and cloud_to_cloud_msg are represented by the *)
(* arguments os_cloud_node.cpp calls them with.                            *)
(*                                                                         *)
(* Abstractions: a scan column is represented by its header timestamp;     *)
(* timestamps and host time are counted in whole seconds; a packet length  *)
(* is counted in columns.                                                  *)
(***************************************************************************)
EXTENDS Integers, Sequences, FiniteSets, TLC

\* columns per frame (info.format.columns_per_frame)
W == 2
\* columns carried by one lidar packet (pf.columns_per_packet)
ColsPerPacket == 2
\* largest column timestamp drawn
MaxTs == 2
\* largest IMU payload value drawn
MaxImu == 1
\* number of callbacks dispatched by ros::spin in one run
MaxCalls == 2
\* queue size of the lidar_packets subscription (2048 in the source)
QueueSize == 2
\* number of lidar packets arriving on the subscription in one run
MaxRecv == 7

\* const ros::Duration kMaxTimeOffset(5.0)
kMaxTimeOffset == 5

VARIABLES pc, tf_sent, ls, batch, lidar_pub, imu_pub, spinning, nCalls,
          call, delivered, nValidTrue, c2,
          lidar_queue, nRecv, applied, running

\* the lidar_packets subscription and the thread in ros::spin: the packets
\* queued (by arrival number), the number received, the packets passed to
\* batch so far, and the lidar_handler invocations that have called batch
\* and not yet returned
qvars == <<lidar_queue, nRecv, applied, running>>

vars == <<pc, tf_sent, ls, batch, lidar_pub, imu_pub, spinning, nCalls,
          call, delivered, nValidTrue, c2, qvars>>

----------------------------------------------------------------------------
(* Inputs *)

ColIdx == 1..W
\* column timestamps are drawn one step apart, a step being longer than
\* kMaxTimeOffset; 0 is the timestamp of a column never written
TsStep == kMaxTimeOffset + 1
TsVals == {k * TsStep : k \in 0..MaxTs}
\* a column as batch decodes it; the column with the out-of-range id carries
\* the largest timestamp
Column == [m_id : 0..(W - 1), ts : TsVals]
             \cup {[m_id |-> W, ts |-> MaxTs * TsStep]}

\* byte length of a packet, in columns: one short, exact.  (A packet that
\* is too long is read like the short one: ColsPerPacket columns from the
\* pointer, whatever the length.)
LidarLens == {ColsPerPacket - 1, ColsPerPacket}
ImuLen == 1
ImuLens == {ImuLen - 1, ImuLen, ImuLen + 1}
ImuVals == 0..MaxImu

\* values ros::Time::now() returns: the host clock at the earliest and at
\* the latest nonzero column timestamp
NowVals == {TsStep, MaxTs * TsStep}

sensor_frame == "os_sensor"
imu_frame == "os_imu"

----------------------------------------------------------------------------
(* ScanBatcher (design 4.2): one buffer, written in place *)

NoId == -1

\* variant: the id must fall below the previous one to start a revolution
IsNewRevolution_strict(last_m_id, m_id) ==
    \/ last_m_id = NoId
    \/ m_id < last_m_id

\* a column starts a new revolution: first column ever, or id not above
\* the previously seen id
IsNewRevolution(last_m_id, m_id) ==
    \/ last_m_id = NoId
    \/ m_id <= last_m_id

InRange(m_id) == m_id >= 0 /\ m_id < W

\* variant: the scan is reported when its last column has been written
batch_col_eager(b, col) ==
    IF ~InRange(col.m_id)
    THEN b
    ELSE [headers   |-> [b.headers EXCEPT ![col.m_id + 1] = col.ts],
          last_m_id |-> col.m_id,
          swapped   |-> \/ b.swapped
                        \/ IsNewRevolution(b.last_m_id, col.m_id)
                        \/ col.m_id = W - 1]

\* variant: an out-of-range id is clamped to the last column
batch_col_clamp(b, col) ==
    LET i == IF InRange(col.m_id) THEN col.m_id + 1 ELSE W
    IN [headers   |-> [b.headers EXCEPT ![i] = col.ts],
        last_m_id |-> i - 1,
        swapped   |-> b.swapped \/ IsNewRevolution(b.last_m_id, i - 1)]

\* one column of a packet applied to the batcher state b
batch_col(b, col) ==
    IF ~InRange(col.m_id)
    THEN b
    ELSE [headers   |-> [b.headers EXCEPT ![col.m_id + 1] = col.ts],
          last_m_id |-> col.m_id,
          swapped   |-> b.swapped \/ IsNewRevolution(b.last_m_id, col.m_id)]

----------------------------------------------------------------------------
(* os_cloud_node.cpp *)

\* index of ls.headers.end()
End == W + 1

\* variant: the search runs from the end of the headers
find_if_last(headers) ==
    IF \E i \in ColIdx : headers[i] # 0
    THEN CHOOSE i \in ColIdx :
            headers[i] # 0 /\ \A j \in ColIdx : headers[j] # 0 => j <= i
    ELSE End

\* std::find_if(ls.headers.begin(), ls.headers.end(),
\*              [](h){ return h.timestamp != 0ns; })
find_if(headers) ==
    IF \E i \in ColIdx : headers[i] # 0
    THEN CHOOSE i \in ColIdx :
            headers[i] # 0 /\ \A j \in ColIdx : headers[j] # 0 => i <= j
    ELSE End

\* scan_to_cloud(xyz_lut, scan_ts, ls, cloud): the cloud keeps scan_ts
scan_to_cloud(scan_ts, headers) == [scan_ts |-> scan_ts, width |-> W]

\* cloud_to_cloud_msg(cloud, timestamp, frame): header and width of the
\* message
cloud_to_cloud_msg(cloud, timestamp, frame) ==
    [stamp |-> timestamp, frame_id |-> frame, cloud_ts |-> cloud.scan_ts,
     width |-> cloud.width]

\* TRUE iff check_valid_timestamp logs the ROS_ERROR
check_valid_timestamp(msg_time, now) == msg_time < now - kMaxTimeOffset

\* variant: no test of h against ls.headers.end()
lidar_handler_out_noguard(swapped, headers, now) ==
    IF swapped
    THEN LET h   == find_if(headers)
             t   == IF h # End THEN headers[h] ELSE 0
             msg == cloud_to_cloud_msg(scan_to_cloud(t, headers), t, sensor_frame)
         IN [pub |-> <<msg>>, err |-> check_valid_timestamp(msg.stamp, now)]
    ELSE [pub |-> <<>>, err |-> FALSE]

\* variant: the result of batch is not tested
lidar_handler_out_always(swapped, headers, now) ==
    LET h == find_if(headers)
    IN IF h # End
       THEN LET msg == cloud_to_cloud_msg(scan_to_cloud(headers[h], headers),
                                          headers[h], sensor_frame)
            IN [pub |-> <<msg>>, err |-> check_valid_timestamp(msg.stamp, now)]
       ELSE [pub |-> <<>>, err |-> FALSE]

\* variant: a reported clock error suppresses the publish
lidar_handler_out_skewblocks(swapped, headers, now) ==
    IF swapped
    THEN LET h == find_if(headers)
         IN IF h # End
            THEN LET msg == cloud_to_cloud_msg(scan_to_cloud(headers[h], headers),
                                               headers[h], sensor_frame)
                     err == check_valid_timestamp(msg.stamp, now)
                 IN [pub |-> IF err THEN <<>> ELSE <<msg>>, err |-> err]
            ELSE [pub |-> <<>>, err |-> FALSE]
    ELSE [pub |-> <<>>, err |-> FALSE]

\* variant: a scan with a column that has no timestamp is not published
lidar_handler_out_full(swapped, headers, now) ==
    IF swapped /\ \A i \in ColIdx : headers[i] # 0
    THEN LET msg == cloud_to_cloud_msg(scan_to_cloud(headers[1], headers),
                                       headers[1], sensor_frame)
         IN [pub |-> <<msg>>, err |-> check_valid_timestamp(msg.stamp, now)]
    ELSE [pub |-> <<>>, err |-> FALSE]

\* body of lidar_handler after the batch call: the messages handed to
\* lidar_pub.publish and whether the clock error is logged
lidar_handler_out(swapped, headers, now) ==
    IF swapped
    THEN LET h == find_if(headers)
         IN IF h # End
            THEN LET cloud == scan_to_cloud(headers[h], headers)
                     msg   == cloud_to_cloud_msg(cloud, headers[h], sensor_frame)
                 IN [pub |-> <<msg>>,
                     err |-> check_valid_timestamp(msg.stamp, now)]
            ELSE [pub |-> <<>>, err |-> FALSE]
    ELSE [pub |-> <<>>, err |-> FALSE]

\* variant: the reading is not published
imu_handler_out_none(m) == <<>>

\* body of imu_handler: imu_pub.publish(packet_to_imu_msg(p, imu_frame, pf))
imu_handler_out(m) == <<m>>

\* packet_to_imu_msg(p, imu_frame, pf) (design 4.4): the outcomes of the
\* call.  A packet of the expected length decodes to one reading.  For any
\* other length the decoder either rejects the packet, which the call at
\* line 98 can only see as an exception, or decodes whatever bytes lie at
\* the fixed offsets.
packet_to_imu_msg(p) ==
    IF p.len = ImuLen
    THEN {[threw |-> FALSE, msg |-> [frame_id |-> imu_frame, v |-> p.v]]}
    ELSE {[threw |-> TRUE, msg |-> [frame_id |-> imu_frame, v |-> 0]]}
         \cup {[threw |-> FALSE, msg |-> [frame_id |-> imu_frame, v |-> g]] :
                  g \in ImuVals}

----------------------------------------------------------------------------
(* History of the run: what the last callback was given and did *)

NoCol == [m_id |-> NoId, ts |-> 0]
ZeroHeaders == [i \in ColIdx |-> 0]

NoCall ==
    [op |-> "none", lenOK |-> TRUE, swapped |-> FALSE, touched |-> {},
     oorThenIn |-> FALSE, lastIn |-> NoCol,
     full |-> FALSE, snap |-> ZeroHeaders,
     wrap |-> FALSE, rewrote |-> FALSE,
     err |-> FALSE, far |-> FALSE, npub |-> 0, threw |-> FALSE]

C2Off == [ok |-> FALSE, pos |-> 0, wrapped |-> FALSE, nTrue |-> 0,
          retAtWrap |-> FALSE]
C2Start == [ok |-> TRUE, pos |-> 0, wrapped |-> FALSE, nTrue |-> 0,
            retAtWrap |-> FALSE]

\* one column recorded: t is the record of the call so far (t.d: the ids
\* delivered in the revolution being accumulated, t.nwrap: revolutions
\* started in this call), b the batcher state the column meets.  snap and
\* full describe the buffer at the first start of a revolution in the call:
\* its contents before that column is written, and whether every column of
\* the revolution it ends had been delivered.  far (set by the handler):
\* the published stamp differs from the host time by more than
\* kMaxTimeOffset.  wrap (set by the handler): a column of the call started
\* a revolution.  rewrote: a column that did not start a revolution had an
\* id already delivered in the revolution being accumulated
trace_col(t, b, col) ==
    IF ~InRange(col.m_id)
    THEN [t EXCEPT !.hadOOR = TRUE]
    ELSE LET new   == IsNewRevolution(b.last_m_id, col.m_id)
             first == new /\ t.nwrap = 0
         IN [t EXCEPT !.touched   = @ \cup {col.m_id + 1},
                      !.lastIn    = col,
                      !.oorThenIn = @ \/ t.hadOOR,
                      !.nwrap     = IF new THEN @ + 1 ELSE @,
                      !.snap      = IF first THEN b.headers ELSE @,
                      !.full      = IF first THEN t.d = 0..(W - 1) ELSE @,
                      !.rewrote   = @ \/ (~new /\ col.m_id \in t.d),
                      !.d         = IF new THEN {col.m_id} ELSE @ \cup {col.m_id}]

\* the sequence "columns 0..W-1 in order, then column 0 of the next
\* revolution", followed column by column
c2_col(c, col) ==
    IF ~c.ok THEN c
    ELSE IF InRange(col.m_id) /\ col.m_id = c.pos /\ c.pos < W
    THEN [c EXCEPT !.pos = @ + 1]
    ELSE IF ~c.wrapped /\ c.pos = W /\ col.m_id = 0
    THEN [c EXCEPT !.pos = 1, !.wrapped = TRUE]
    ELSE C2Off

RECURSIVE run_from(_, _, _)
\* batch(packet_buf, ls): the ColsPerPacket columns read through the pointer
\* are applied in order; r = [b, t, c]: batcher state, record of the call,
\* sequence tracker
run_from(i, r, cols) ==
    IF i > ColsPerPacket THEN r
    ELSE run_from(i + 1,
                  [b |-> batch_col(r.b, cols[i]),
                   t |-> trace_col(r.t, r.b, cols[i]),
                   c |-> c2_col(r.c, cols[i])],
                  cols)

----------------------------------------------------------------------------
(* main *)

\* the program before client.call(cfg): nothing is advertised, subscribed
\* or sent yet; ls and batch stand for the objects main constructs once the
\* metadata is parsed
Init ==
    /\ pc = "main"
    /\ tf_sent = 0
    /\ ls = ZeroHeaders
    /\ batch = [last_m_id |-> NoId]
    /\ lidar_pub = <<>>
    /\ imu_pub = <<>>
    /\ spinning = FALSE
    /\ nCalls = 0
    /\ call = NoCall
    /\ delivered = {}
    /\ nValidTrue = 0
    /\ c2 = C2Start
    /\ lidar_queue = <<>>
    /\ nRecv = 0
    /\ applied = <<>>
    /\ running = {}

\* client.call(cfg) and what follows it in main: on failure main returns
\* EXIT_FAILURE; otherwise it advertises, subscribes, sends the two static
\* transforms and enters ros::spin
main_config(ok) ==
    /\ pc = "main"
    /\ pc' = IF ok THEN "spin" ELSE "exit_failure"
    /\ spinning' = ok
    /\ tf_sent' = IF ok THEN 2 ELSE 0
    /\ UNCHANGED <<ls, batch, lidar_pub, imu_pub, nCalls, call, delivered,
                   nValidTrue, c2, qvars>>

----------------------------------------------------------------------------
(* Callbacks dispatched by ros::spin *)

\* lidar_handler(pm): cols is what batch reads at pm.buf.data(): the
\* packet's own columns up to len, and whatever follows the buffer beyond
lidar_handler(len, cols) ==
    /\ spinning
    /\ nCalls < MaxCalls
    /\ \E h \in {run_from(1, [b |-> [headers |-> ls,
                                     last_m_id |-> batch.last_m_id,
                                     swapped |-> FALSE],
                              t |-> [NoCall EXCEPT !.op = "lidar"]
                                       @@ [d |-> delivered, nwrap |-> 0,
                                           hadOOR |-> FALSE],
                              c |-> IF c2.wrapped \/ len # ColsPerPacket
                                    THEN C2Off ELSE c2], cols)} :
       \E valid \in {h.b.swapped /\ \E i \in ColIdx : h.b.headers[i] # 0} :
       \E now \in (IF valid THEN NowVals ELSE {kMaxTimeOffset}) :
       \E out \in {lidar_handler_out(h.b.swapped, h.b.headers, now)} :
          /\ ls' = h.b.headers
          /\ batch' = [last_m_id |-> h.b.last_m_id]
          /\ lidar_pub' = lidar_pub \o out.pub
          /\ call' = [op |-> "lidar", lenOK |-> (len = ColsPerPacket),
                      swapped |-> h.b.swapped, touched |-> h.t.touched,
                      oorThenIn |-> h.t.oorThenIn,
                      lastIn |-> h.t.lastIn,
                      full |-> (h.t.full /\ h.t.nwrap = 1),
                      snap |-> IF h.t.full /\ h.t.nwrap = 1 THEN h.t.snap
                               ELSE ZeroHeaders,
                      wrap |-> (h.t.nwrap > 0),
                      rewrote |-> h.t.rewrote,
                      err |-> out.err,
                      far |-> /\ out.pub # <<>>
                              /\ \/ out.pub[1].stamp < now - kMaxTimeOffset
                                 \/ out.pub[1].stamp > now + kMaxTimeOffset,
                      npub |-> Len(out.pub),
                      threw |-> FALSE]
          /\ delivered' = h.t.d
          /\ nValidTrue' = IF valid THEN nValidTrue + 1 ELSE nValidTrue
          /\ c2' = IF ~h.c.ok THEN C2Off
                   ELSE [h.c EXCEPT
                           !.nTrue = IF h.b.swapped THEN @ + 1 ELSE @,
                           !.retAtWrap = IF h.c.wrapped THEN h.b.swapped
                                         ELSE @]
    /\ nCalls' = nCalls + 1
    /\ UNCHANGED <<pc, tf_sent, imu_pub, spinning, qvars>>

\* imu_handler(p); an exception leaving the callback leaves ros::spin and
\* main with it
imu_handler(p) ==
    /\ spinning
    /\ nCalls < MaxCalls
    /\ \E o \in packet_to_imu_msg(p) :
         /\ imu_pub' = IF o.threw THEN imu_pub
                       ELSE imu_pub \o imu_handler_out(o.msg)
         /\ spinning' = ~o.threw
         /\ pc' = IF o.threw THEN "aborted" ELSE pc
         /\ call' = [NoCall EXCEPT !.op = "imu", !.lenOK = (p.len = ImuLen),
                                   !.threw = o.threw,
                                   !.npub = IF o.threw THEN 0 ELSE 1]
    /\ nCalls' = nCalls + 1
    /\ UNCHANGED <<tf_sent, ls, batch, lidar_pub, delivered, nValidTrue, c2,
                   qvars>>

LidarPacket == \E len \in LidarLens : \E cols \in [1..ColsPerPacket -> Column] :
                  lidar_handler(len, cols)
ImuPacket == \E p \in [len : ImuLens, v : ImuVals] : imu_handler(p)

Startup == \E ok \in BOOLEAN : main_config(ok)

Next == Startup \/ LidarPacket \/ ImuPacket

Spec == Init /\ [][Next]_vars

----------------------------------------------------------------------------
(* Delivery: the lidar_packets subscription and ros::spin *)

mvars == <<pc, tf_sent, ls, batch, lidar_pub, imu_pub, spinning, nCalls,
           call, delivered, nValidTrue, c2>>

\* variant: the newest message is put at the head of the queue
enqueue_front(q, m) ==
    IF Len(q) = QueueSize THEN <<m>> \o SubSeq(q, 1, QueueSize - 1)
    ELSE <<m>> \o q

\* nh.subscribe("lidar_packets", 2048, lidar_handler): a message is appended
\* to the subscription's queue; when the queue is full the oldest message
\* is discarded
enqueue(q, m) ==
    IF Len(q) = QueueSize THEN Append(Tail(q), m) ELSE Append(q, m)

\* variant: callbacks are called from two threads
may_call_spin2(r) == Cardinality(r) < 2

\* ros::spin(): callbacks are called from the one thread that called spin;
\* it takes the next callback when no callback is being executed
may_call(r) == r = {}

\* a packet arrives on lidar_packets
receive_lidar ==
    /\ spinning
    /\ nRecv < MaxRecv
    /\ nRecv' = nRecv + 1
    /\ lidar_queue' = enqueue(lidar_queue, nRecv + 1)
    /\ UNCHANGED <<applied, running, mvars>>

\* ros::spin calls lidar_handler with the message at the head of the queue;
\* the handler calls batch(pm.buf.data(), ls) first (line 77)
lidar_handler_begin ==
    /\ spinning
    /\ may_call(running)
    /\ lidar_queue # <<>>
    /\ applied' = Append(applied, Head(lidar_queue))
    /\ running' = running \cup {Head(lidar_queue)}
    /\ lidar_queue' = Tail(lidar_queue)
    /\ UNCHANGED <<nRecv, mvars>>

\* the handler has read the buffer (find_if, scan_to_cloud, publish) and
\* returns
lidar_handler_end ==
    /\ \E m \in running : running' = running \ {m}
    /\ UNCHANGED <<lidar_queue, nRecv, applied, mvars>>

NextQueue == Startup \/ receive_lidar \/ lidar_handler_begin \/ lidar_handler_end

SpecQueue == Init /\ [][NextQueue]_vars

\* the timestamp of the column batch wrote last (0 before any column)
last_ts == IF batch.last_m_id = NoId THEN 0 ELSE ls[batch.last_m_id + 1]

\* the columns of a packet that batch writes carry timestamps that do not
\* decrease, neither within the packet nor against the column written last
non_decreasing(cols) ==
    \A i \in 1..ColsPerPacket :
        InRange(cols[i].m_id) =>
            /\ cols[i].ts >= last_ts
            /\ \A j \in 1..(i - 1) :
                   InRange(cols[j].m_id) => cols[j].ts <= cols[i].ts

\* the sensor's clock does not go back: lidar packets whose column
\* timestamps are non-decreasing in arrival order
LidarPacketMono ==
    \E len \in LidarLens : \E cols \in [1..ColsPerPacket -> Column] :
        non_decreasing(cols) /\ lidar_handler(len, cols)

NextMono == Startup \/ LidarPacketMono \/ ImuPacket

SpecMono == Init /\ [][NextMono]_vars

TypeOK ==
    /\ ls \in [ColIdx -> TsVals]
    /\ batch.last_m_id \in {NoId} \cup 0..(W - 1)
    /\ nCalls \in 0..MaxCalls
    /\ pc \in {"main", "spin", "exit_failure", "aborted"}
    /\ spinning = (pc = "spin")
    /\ Len(lidar_pub) <= nCalls

----------------------------------------------------------------------------
(* Properties *)

HasNonzero(headers) == \E i \in ColIdx : headers[i] # 0
AllZero(headers) == \A i \in ColIdx : headers[i] = 0

\* i is the lowest-indexed column of headers with a nonzero timestamp
IsFirstNonzero(headers, i) ==
    /\ headers[i] # 0
    /\ \A j \in ColIdx : j < i => headers[j] = 0

LastPub == lidar_pub[Len(lidar_pub)]

\* C1: no cloud is published from a lidar_handler call that leaves every
\* column header of the scan buffer at timestamp zero; the completed scan is
\* dropped, no published cloud carries timestamp zero, and the node keeps
\* dispatching callbacks.
C1_ZeroScanDropped ==
    /\ call.op = "lidar" /\ AllZero(ls) => call.npub = 0 /\ spinning
    /\ \A k \in 1..Len(lidar_pub) : lidar_pub[k].stamp # 0

\* a completed scan whose columns all have timestamp zero was dropped
C1_Witness ==
    /\ call.op = "lidar"
    /\ call.swapped
    /\ AllZero(ls)
    /\ call.npub = 0
    /\ lidar_pub = <<>>

\* C2: over a packet sequence that delivers columns 0..W-1 in order and then
\* the first column of the next revolution, batch returns true exactly once,
\* on the call that processes the column whose measurement id wraps.
C2_TrueOnceAtWrap ==
    c2.ok /\ c2.wrapped => c2.nTrue = 1 /\ c2.retAtWrap

\* C3: when batch returns true after a revolution in which every column
\* 0..W-1 was delivered (here: by well-formed packets, in order), the buffer
\* the caller reads in that call holds the W columns of the completed
\* revolution, none overwritten by a column of the next revolution.
C3_CompletedScanIntact ==
    call.op = "lidar" /\ call.swapped /\ call.full /\ c2.ok =>
        ls = call.snap

\* C4: a published cloud carries the timestamp of the lowest-indexed column
\* of the scan buffer whose timestamp is nonzero, both as the timestamp
\* given to scan_to_cloud and as the stamp of the message header.
C4_StampIsFirstNonzero ==
    call.op = "lidar" /\ call.npub = 1 =>
        \E i \in ColIdx :
            /\ IsFirstNonzero(ls, i)
            /\ LastPub.stamp = ls[i]
            /\ LastPub.cloud_ts = ls[i]

\* a cloud was published from a buffer with two different nonzero timestamps
C4_Witness ==
    /\ call.op = "lidar"
    /\ call.npub = 1
    /\ \E i, j \in ColIdx : i < j /\ ls[i] # 0 /\ ls[j] # 0 /\ ls[i] # ls[j]

\* C5: the number of published clouds equals the number of batch calls that
\* returned true with at least one nonzero-timestamp column in the buffer;
\* one lidar_handler call publishes at most one cloud, none when batch
\* returns false, and exactly one when batch returns true on such a buffer.
C5_OneCloudPerValidScan ==
    /\ Len(lidar_pub) = nValidTrue
    /\ call.npub <= 1
    /\ call.op = "lidar" /\ ~call.swapped => call.npub = 0
    /\ call.op = "lidar" /\ call.swapped /\ HasNonzero(ls) => call.npub = 1

\* one call published a cloud and a later call, on a buffer with data,
\* published none because batch returned false
C5_Witness ==
    /\ call.op = "lidar"
    /\ ~call.swapped
    /\ HasNonzero(ls)
    /\ Len(lidar_pub) = 1
    /\ nCalls = 2

\* C6: a column whose declared index is outside [0, W) is ignored: every
\* column not addressed by an in-range column of the packet keeps its stored
\* value, and the in-range columns of the same packet are still written.
C6_OutOfRangeIgnored ==
    [][call'.op = "lidar" =>
         /\ \A i \in ColIdx \ call'.touched : ls'[i] = ls[i]
         /\ call'.lastIn # NoCol =>
               /\ ls'[call'.lastIn.m_id + 1] = call'.lastIn.ts
               /\ batch'.last_m_id = call'.lastIn.m_id]_vars

\* a packet held an out-of-range column and then an in-range one; a column
\* it did not address still holds data stored earlier
C6_Witness ==
    /\ call.op = "lidar"
    /\ call.oorThenIn
    /\ \E i \in ColIdx \ call.touched : ls[i] # 0

\* C7: a lidar packet whose length differs from the expected size is
\* dropped: it leaves the scan buffer and the batcher unchanged and causes
\* no publication.
C7_WrongLengthDropped ==
    [][call'.op = "lidar" /\ ~call'.lenOK =>
         ls' = ls /\ batch' = batch /\ lidar_pub' = lidar_pub]_vars

\* C8: an IMU packet of the wrong length is rejected: no reading is
\* published for it and later IMU packets are still dispatched.
C8_WrongLengthImuRejected ==
    [][call'.op = "imu" /\ ~call'.lenOK =>
         imu_pub' = imu_pub /\ spinning']_vars

\* C9: a valid IMU packet produces exactly one IMU reading and leaves the
\* scan buffer, the batcher, the published clouds and the dispatching of
\* later packets unchanged; a lidar packet produces no IMU reading.
C9_FeedsIndependent ==
    [][/\ call'.op = "imu" /\ call'.lenOK =>
            /\ Len(imu_pub') = Len(imu_pub) + 1
            /\ UNCHANGED <<ls, batch, lidar_pub, delivered, spinning>>
       /\ call'.op = "lidar" => imu_pub' = imu_pub]_vars

\* an IMU reading was published after a cloud, which is still the only one
C9_Witness ==
    /\ call.op = "imu"
    /\ call.lenOK
    /\ Len(imu_pub) = 1
    /\ Len(lidar_pub) = 1
    /\ HasNonzero(ls)

\* C10: for a completed scan with a nonzero-timestamp column the cloud is
\* published whether or not check_valid_timestamp reports the clock error,
\* and the message is the one built from the buffer either way.
C10_SkewDoesNotBlock ==
    call.op = "lidar" /\ call.swapped /\ HasNonzero(ls) =>
        /\ call.npub = 1
        /\ \E i \in ColIdx :
              /\ IsFirstNonzero(ls, i)
              /\ LastPub = [stamp |-> ls[i], frame_id |-> sensor_frame,
                            cloud_ts |-> ls[i], width |-> W]

\* a cloud was published by a call in which the clock error was reported
C10_Witness ==
    /\ call.op = "lidar"
    /\ call.err
    /\ call.npub = 1
    /\ Len(lidar_pub) >= 1

\* the first half of C11: after a failed metadata call main has returned a
\* failure status, no callback ever ran and nothing was emitted
C11_StartupFailureIsFatal ==
    pc = "exit_failure" =>
        /\ ~spinning
        /\ nCalls = 0
        /\ lidar_pub = <<>> /\ imu_pub = <<>> /\ tf_sent = 0

\* C11: if the metadata call fails at startup the program ends with a
\* failure status before any subscription exists: no packet is processed
\* and no cloud, IMU reading or transform is emitted; and it is the only
\* error that ends the program: no packet ever does.
C11_OnlyStartupFailureEnds ==
    /\ C11_StartupFailureIsFatal
    /\ nCalls > 0 => pc = "spin"

C16_SkewReportedBothWays ==
    call.op = "lidar" /\ call.npub = 1 => (call.err <=> call.far)

\* C17: partial scans are published: whenever batch returns true and some
\* column of the buffer has a nonzero timestamp, one cloud of full width is
\* published, also when columns of the buffer never received data; a cloud
\* is published in no other case.
C17_PartialScanPublished ==
    call.op = "lidar" =>
        /\ call.npub = 1 <=> call.swapped /\ HasNonzero(ls)
        /\ call.npub = 1 => LastPub.width = W

\* a cloud was published from a buffer holding a column with no timestamp,
\* after a revolution that was not delivered in full
C17_Witness ==
    /\ call.op = "lidar"
    /\ call.npub = 1
    /\ ~call.full
    /\ \E i \in ColIdx : ls[i] = 0

\* C18: the stamp of a published cloud is the timestamp of a column of the
\* revolution that was just completed (here: a revolution delivered in full
\* and in order, whose W timestamps call.snap holds), not the timestamp of a
\* column of the revolution that starts in the same call.
C18_StampOfCompletedRevolution ==
    call.op = "lidar" /\ call.npub = 1 /\ call.full /\ c2.ok =>
        \E i \in ColIdx : LastPub.stamp = call.snap[i]

\* C19 as stated: when column timestamps are non-decreasing in arrival
\* order, the stamps of successively published clouds are strictly
\* increasing.
C19_StampsStrictlyIncreasing ==
    \A k \in 1..(Len(lidar_pub) - 1) :
        lidar_pub[k].stamp < lidar_pub[k + 1].stamp

\* C19: when column timestamps are non-decreasing in arrival order, no
\* published cloud carries an earlier stamp than a cloud published before
\* it; two clouds can carry the same stamp.
C19_StampsNonDecreasing ==
    \A k \in 1..(Len(lidar_pub) - 1) :
        lidar_pub[k].stamp <= lidar_pub[k + 1].stamp

\* two clouds were published, the second with a later stamp than the first
C19_Witness ==
    /\ Len(lidar_pub) = 2
    /\ call.op = "lidar" /\ call.npub = 1
    /\ lidar_pub[1].stamp < lidar_pub[2].stamp

\* C13: lidar_handler invocations never overlap, and the buffer is read out
\* before it is written again: while an invocation is between its batch call
\* and its return, it is the only invocation and its batch call is the
\* latest batch call made.
C13_HandlerNotReentered ==
    /\ Cardinality(running) <= 1
    /\ \A m \in running : applied # <<>> /\ applied[Len(applied)] = m

\* an invocation is reading the buffer while a later packet waits in the
\* queue, after an earlier invocation has returned
C13_Witness ==
    /\ Cardinality(running) = 1
    /\ lidar_queue # <<>>
    /\ Len(applied) >= 2

\* C14: the packets passed to batch are a subsequence of the packets
\* received, in arrival order: every one was received, none is applied
\* twice and no two are applied in the reverse of their arrival order.
C14_AppliedInArrivalOrder ==
    /\ \A i \in 1..Len(applied) : applied[i] \in 1..nRecv
    /\ \A i \in 1..Len(applied) : \A j \in 1..Len(applied) :
           i < j => applied[i] < applied[j]

\* the queue overflowed and dropped a packet, and packets that arrived
\* before and after the dropped one were applied
C14_Witness ==
    /\ Len(applied) >= 2
    /\ \E m \in 1..nRecv :
           /\ applied[1] < m /\ m < applied[Len(applied)]
           /\ \A i \in 1..Len(applied) : applied[i] # m

====
